---- MODULE Spec2Model ----
(***************************************************************************)
(* Model of the retrieval pipeline of srs_classifier:                       *)
(*   api/utils.py  FreeVectorStore, extract_text_from_*, chunk_text         *)
(*   api/views.py  UploadDocumentAPIView.post, QueryAPIView.post            *)
(*                                                                          *)
(* Strings whose content does not matter are tokens; strings whose length   *)
(* matters are carried by their length.  Similarity scores are integers in  *)
(* hundredths (0.3 is 30).  List positions in the Python code are 0-based;  *)
(* position p of a Python list is element p + 1 of the TLA+ sequence.       *)
(***************************************************************************)
EXTENDS Integers, Sequences, FiniteSets, TLC

VARIABLES
    index,      \* vector_store.index: the vectors of the FAISS index, in add order
    documents,  \* vector_store.documents: list of {'id', 'text', 'metadata'}
    diskIndex,  \* <persist_dir>/faiss_index.bin: absent, corrupt or the vectors
    diskDocs,   \* <persist_dir>/documents.json: absent, corrupt or the records
    fresh,      \* the in-memory store was created empty by create_new_index
    saveFailures, \* how many save_index calls have failed so far
    req,        \* the last completed request (or process start) and its response
    cin,        \* chunk_text: the arguments of the call
    cout,       \* chunk_text: the outcome of the call
    calls,      \* the add_documents calls of the request threads: position and locals
    fileLen     \* how many entries' worth of bytes each file of the persist directory holds

vars == <<index, documents, diskIndex, diskDocs, fresh, saveFailures, req, cin, cout,
          calls, fileLen>>

\* ------------------------------------------------------------------ bounds
MaxDocs == 3        \* most vectors the index holds in the model
MaxBatch == 2       \* most chunks one upload adds
MaxSaveFailures == 1 \* most save_index calls that fail in one run
MaxTextLen == 7     \* longest raw text given to chunk_text
MaxChunkSize == 7   \* largest max_chunk_size given to chunk_text
MaxOverlapUnits == 2 \* overlap_size ranges over multiples of 50 up to this

\* ------------------------------------------------------- program constants
TopKSize == 5               \* views.py: search(question, k=5, ...)
ScoreThreshold == 30        \* views.py: score_threshold=0.3, in hundredths
ContextSize == 3            \* views.py: search_results[:3]
QuestionMaxLen == 1000      \* views.py: len(question) > 1000
UploadMaxSize == 10 * 1024 * 1024   \* views.py: max_size
UploadChunkSize == 400      \* views.py: chunk_text(text, max_chunk_size=400, ...)
FallbackContextLen == 300   \* views.py: context[:300]
ErrorContextLen == 200      \* views.py: context[:200]
FallbackPrefixLen == 34     \* len("Based on the uploaded documents:\n\n")
ErrorPrefixLen == 30        \* len("I found relevant information: ")
EllipsisLen == 3            \* len("...")
NoInfoLen == 176            \* len of the fixed no-relevant-information answer
SeparatorLen == 2           \* len("\n\n")
OverlapDivisor == 50        \* utils.py: overlap_size // 50
NoHit == -1                 \* FAISS label of an empty result slot
NoHitScore == -1000         \* FAISS score of an empty result slot (lowest float)

Min(a, b) == IF a <= b THEN a ELSE b
Max(a, b) == IF a >= b THEN a ELSE b

\* --------------------------------------------------------- FreeVectorStore

\* self.embedder.encode(texts, ...): one vector per text, the same text always
\* giving the same vector.
Embed(text) == [emb |-> text]

\* create_new_index: an empty IndexFlatIP and an empty documents list.
CreateNewIndex == [index |-> <<>>, documents |-> <<>>, failed |-> FALSE, fresh |-> TRUE]

\* A file of the persist directory.
AbsentFile == [state |-> "absent", data |-> <<>>]
CorruptFile == [state |-> "corrupt", data |-> <<>>]
GoodFile(data) == [state |-> "ok", data |-> data]

\* A load_index whose except branch forgets to reset what was already read.
LoadIndexNoReset(dIndex, dDocs) ==
    IF dIndex.state # "absent" /\ dDocs.state # "absent"
    THEN IF dIndex.state = "corrupt"
         THEN [CreateNewIndex EXCEPT !.failed = TRUE]
         ELSE IF dDocs.state = "corrupt"
              THEN [index |-> dIndex.data, documents |-> <<>>, failed |-> TRUE, fresh |-> FALSE]
              ELSE [index |-> dIndex.data, documents |-> dDocs.data,
                    failed |-> FALSE, fresh |-> FALSE]
    ELSE CreateNewIndex

\* load_index: both files must exist; read the index, then the documents; any
\* exception on the way is logged and create_new_index replaces both.
LoadIndex(dIndex, dDocs) ==
    IF dIndex.state # "absent" /\ dDocs.state # "absent"
    THEN IF dIndex.state = "corrupt"
         THEN [CreateNewIndex EXCEPT !.failed = TRUE]       \* faiss.read_index raises
         ELSE IF dDocs.state = "corrupt"
              THEN [CreateNewIndex EXCEPT !.failed = TRUE]  \* json.load raises
              ELSE [index |-> dIndex.data, documents |-> dDocs.data,
                    failed |-> FALSE, fresh |-> FALSE]
    ELSE CreateNewIndex

\* The ways one save_index call can end.  The exception of a failed write is
\* caught and logged inside save_index.
SaveOutcomes == {"ok", "index_write_fails", "index_write_partial",
                 "docs_open_fails", "docs_dump_fails"}

\* save_index: faiss.write_index, then open(docs_path, 'w') and json.dump.
SaveIndex(idx, docs, dIndex, dDocs, outcome) ==
    CASE outcome = "ok"                  -> [diskIndex |-> GoodFile(idx), diskDocs |-> GoodFile(docs)]
      [] outcome = "index_write_fails"   -> [diskIndex |-> dIndex, diskDocs |-> dDocs]
      [] outcome = "index_write_partial" -> [diskIndex |-> CorruptFile, diskDocs |-> dDocs]
      [] outcome = "docs_open_fails"     -> [diskIndex |-> GoodFile(idx), diskDocs |-> dDocs]
      [] outcome = "docs_dump_fails"     -> [diskIndex |-> GoodFile(idx), diskDocs |-> CorruptFile]

\* The loop of add_documents with the id taken from the position in the batch
\* instead of from len(self.documents).
RECURSIVE AppendRecordsBatchId(_, _, _, _)
AppendRecordsBatchId(docs, texts, metadata, i) ==
    IF i > Len(texts) THEN docs
    ELSE AppendRecordsBatchId(
             Append(docs, [id |-> i - 1, text |-> texts[i], metadata |-> metadata[i]]),
             texts, metadata, i + 1)

\* The loop of add_documents: doc_id = len(self.documents), then append.
RECURSIVE AppendRecords(_, _, _, _)
AppendRecords(docs, texts, metadata, i) ==
    IF i > Len(texts) THEN docs
    ELSE AppendRecords(
             Append(docs, [id |-> Len(docs), text |-> texts[i], metadata |-> metadata[i]]),
             texts, metadata, i + 1)

\* add_documents, up to the call of save_index.
AddDocuments(idx, docs, texts, metadata) ==
    IF Len(texts) = 0 \/ Len(texts) # Len(metadata)
    THEN [raised |-> TRUE, index |-> idx, documents |-> docs]
    ELSE [raised |-> FALSE,
          index |-> idx \o [i \in 1..Len(texts) |-> Embed(texts[i])],
          documents |-> AppendRecords(docs, texts, metadata, 1)]

\* ------------------------------------------------------- request record
Blank ==
    [op |-> "idle", status |-> 0, error |-> "",
     \* upload
     file |-> "", extractFailed |-> FALSE, tempExists |-> FALSE, chunks_created |-> 0,
     \* process start
     loadFailed |-> FALSE,
     \* query
     question |-> [pad |-> 0, core |-> 0], raw |-> <<>>, searchRaised |-> FALSE,
     results |-> <<>>, context |-> <<>>,
     backend |-> [kind |-> "not_called", status |-> 0, core |-> 0], answer |-> [kind |-> "", len |-> 0],
     retrieved_docs |-> <<>>, context_found |-> FALSE, relevance_scores |-> <<>>,
     sources |-> {}, path |-> <<>>]

\* ------------------------------------------------- UploadDocumentAPIView
\* file.name of the uploads the model sends.
Lower(name) == IF name = "D.PDF" THEN "d.pdf" ELSE name

EndsWith(name, ext) ==
    CASE ext = ".pdf"  -> name \in {"a.pdf", "d.pdf"}
      [] ext = ".docx" -> name \in {"b.docx"}
      [] OTHER         -> FALSE

\* request.FILES.get('file') when the request carries no file.
NoFile == [name |-> "", size |-> 0, content |-> "none", nchunks |-> 0]

\* The uploads: a name, a size, what the extractor finds in the file, and how
\* many chunks chunk_text makes of its text (0: chunk_text raises).  Only
\* a.pdf is ever readable, so that the store holds chunks of one file name.
Uploads ==
    [name : {"a.pdf"}, size : {1, UploadMaxSize + 1},
     content : {"text", "no_text", "unreadable"}, nchunks : 0..MaxBatch]
    \cup [name : {"b.docx", "c.txt", "D.PDF"}, size : {1},
          content : {"no_text", "unreadable"}, nchunks : {0}]

\* extract_text_from_docx: the text, or Exception("DOCX extraction failed: ...")
\* when the document cannot be opened or holds no text.
ExtractTextFromDocx(content) ==
    IF content = "text" THEN [raised |-> FALSE, text |-> "text"]
    ELSE [raised |-> TRUE, text |-> ""]

\* extract_text_from_pdf: the text, or Exception("PDF extraction failed: ...")
\* when the file cannot be read or no page yields text.
ExtractTextFromPdf(content) ==
    IF content = "text" THEN [raised |-> FALSE, text |-> "text"]
    ELSE [raised |-> TRUE, text |-> ""]

\* The chunks chunk_text returns for an upload, as tokens, and their lengths.
ChunkTexts(file) == [i \in 1..file.nchunks |-> [file |-> file.name, part |-> i - 1]]
TextLen(text) == IF text.part = 0 THEN UploadChunkSize ELSE 1

\* views.py: the metadata list prepared for add_documents.
ChunkMetadata(file) ==
    [i \in 1..file.nchunks |->
        [filename |-> file.name, chunk_index |-> i - 1, total_chunks |-> file.nchunks]]

\* UploadDocumentAPIView.post up to the call of add_documents: the response
\* when the request ends before it, or "add" when the chunks go to the store.
UploadOutcome(file) ==
    LET filename == Lower(file.name)
        ext == IF EndsWith(filename, ".docx") THEN ExtractTextFromDocx(file.content)
               ELSE ExtractTextFromPdf(file.content)
    IN  IF file = NoFile
        THEN [status |-> 400, error |-> "No file uploaded", temp |-> FALSE,
              extractFailed |-> FALSE, add |-> FALSE]
        ELSE IF file.size > UploadMaxSize
        THEN [status |-> 400, error |-> "File too large", temp |-> FALSE,
              extractFailed |-> FALSE, add |-> FALSE]
        ELSE IF ~(EndsWith(filename, ".docx") \/ EndsWith(filename, ".pdf"))
        THEN [status |-> 400, error |-> "Unsupported file type", temp |-> FALSE,
              extractFailed |-> FALSE, add |-> FALSE]
        ELSE IF ext.raised                       \* except Exception -> 500
        THEN [status |-> 500, error |-> "Processing failed", temp |-> TRUE,
              extractFailed |-> TRUE, add |-> FALSE]
        ELSE IF ext.text = ""                    \* if not text or not text.strip()
        THEN [status |-> 400, error |-> "No text could be extracted", temp |-> TRUE,
              extractFailed |-> FALSE, add |-> FALSE]
        ELSE IF file.nchunks = 0                 \* chunk_text raises ValueError
        THEN [status |-> 500, error |-> "Processing failed", temp |-> TRUE,
              extractFailed |-> FALSE, add |-> FALSE]
        ELSE [status |-> 200, error |-> "", temp |-> TRUE,
              extractFailed |-> FALSE, add |-> TRUE]

\* UploadDocumentAPIView.post, with add_documents, save_index and the finally
\* block that removes the temporary copy (os.remove may fail; that is logged).
UploadPost ==
    \E file \in Uploads \cup {NoFile}, removeFails \in BOOLEAN :
        LET out == UploadOutcome(file)
            added == AddDocuments(index, documents, ChunkTexts(file), ChunkMetadata(file))
            stored == out.add /\ ~added.raised
        IN  /\ req.op = "idle"
            /\ Len(index) + file.nchunks <= MaxDocs
            /\ Len(documents) + file.nchunks <= MaxDocs
            /\ IF stored
               THEN \E save \in SaveOutcomes :
                        LET disk == SaveIndex(added.index, added.documents,
                                              diskIndex, diskDocs, save)
                        IN  /\ save # "ok" => saveFailures < MaxSaveFailures
                            /\ saveFailures' = IF save = "ok" THEN saveFailures
                                               ELSE saveFailures + 1
                            /\ index' = added.index
                            /\ documents' = added.documents
                            /\ diskIndex' = disk.diskIndex
                            /\ diskDocs' = disk.diskDocs
               ELSE UNCHANGED <<index, documents, diskIndex, diskDocs, saveFailures>>
            /\ req' = [Blank EXCEPT
                        !.op = "upload",
                        !.status = IF out.add /\ added.raised THEN 500 ELSE out.status,
                        !.error = IF out.add /\ added.raised THEN "Processing failed"
                                  ELSE out.error,
                        !.file = file.name,
                        !.extractFailed = out.extractFailed,
                        !.tempExists = out.temp /\ removeFails,
                        !.chunks_created = IF stored THEN file.nchunks ELSE 0]
            /\ UNCHANGED <<fresh, cin, cout, calls, fileLen>>

\* Process start: vector_store = FreeVectorStore() runs load_index on what the
\* previous process left in the persist directory.
Restart ==
    LET r == LoadIndex(diskIndex, diskDocs)
    IN  /\ req.op = "idle"
        /\ index' = r.index
        /\ documents' = r.documents
        /\ fresh' = r.fresh
        /\ req' = [Blank EXCEPT !.op = "start", !.loadFailed = r.failed]
        /\ UNCHANGED <<diskIndex, diskDocs, saveFailures, cin, cout, calls, fileLen>>

\* ----------------------------------------------------- FreeVectorStore.search
\* The similarity scores (hundredths) the model lets a query have with a stored
\* vector: below the threshold, exactly at it, above it.
ScoreSet == {25, 30, 60}

\* An empty slot of a FAISS result (fewer than k vectors in the index).
EmptySlots(k) == [i \in 1..k |-> [idx |-> NoHit, score |-> NoHitScore]]

\* self.index.search(query_embedding, k) of an IndexFlatIP: the k best scoring
\* positions, best first.  The order FAISS gives to equal scores is not fixed by
\* this code, so every such order is an outcome.
RECURSIVE TopK(_, _, _)
TopK(scores, rem, k) ==
    IF k = 0 THEN {<<>>}
    ELSE IF rem = {} THEN {EmptySlots(k)}
    ELSE UNION {
            {<<[idx |-> i, score |-> scores[i]]>> \o t : t \in TopK(scores, rem \ {i}, k - 1)} :
            i \in {j \in rem : \A m \in rem : scores[m] <= scores[j]}}

\* The raw results one query can get from an index of n vectors.
IndexSearch(n, k) ==
    UNION {TopK(scores, 0..(n - 1), k) : scores \in [0..(n - 1) -> ScoreSet]}

\* A threshold test that lets every score through.
PassesAlways(score, score_threshold) == TRUE

\* search: score >= score_threshold.
Passes(score, score_threshold) == score >= score_threshold

\* The loop of search putting each new result in front of the earlier ones.
RECURSIVE SearchLoopPrepend(_, _, _, _, _)
SearchLoopPrepend(raw, docs, score_threshold, i, results) ==
    IF i > Len(raw) THEN [raised |-> FALSE, results |-> results]
    ELSE IF raw[i].idx # NoHit /\ Passes(raw[i].score, score_threshold)
         THEN IF raw[i].idx + 1 > Len(docs)
              THEN [raised |-> TRUE, results |-> <<>>]
              ELSE SearchLoopPrepend(raw, docs, score_threshold, i + 1,
                       <<[text |-> docs[raw[i].idx + 1].text, score |-> raw[i].score,
                          metadata |-> docs[raw[i].idx + 1].metadata,
                          idx |-> raw[i].idx]>> \o results)
         ELSE SearchLoopPrepend(raw, docs, score_threshold, i + 1, results)

\* The loop of search over zip(scores[0], indices[0]): a hit that is not -1 and
\* passes the threshold is looked up in self.documents (IndexError when the list
\* is shorter than the index) and appended.  The field idx is not in the code's
\* result: it records which position the result came from.
RECURSIVE SearchLoop(_, _, _, _, _)
SearchLoop(raw, docs, score_threshold, i, results) ==
    IF i > Len(raw) THEN [raised |-> FALSE, results |-> results]
    ELSE IF raw[i].idx # NoHit /\ Passes(raw[i].score, score_threshold)
         THEN IF raw[i].idx + 1 > Len(docs)
              THEN [raised |-> TRUE, results |-> <<>>]
              ELSE SearchLoop(raw, docs, score_threshold, i + 1,
                       Append(results,
                              [text |-> docs[raw[i].idx + 1].text, score |-> raw[i].score,
                               metadata |-> docs[raw[i].idx + 1].metadata,
                               idx |-> raw[i].idx]))
         ELSE SearchLoop(raw, docs, score_threshold, i + 1, results)

\* search, given what the index returned (raw is empty when ntotal == 0 and the
\* index is not asked).
Search(raw, docs, score_threshold) == SearchLoop(raw, docs, score_threshold, 1, <<>>)

\* ------------------------------------------------------------ QueryAPIView
\* request.data.get('question', ''): pad characters of surrounding whitespace
\* around core other characters.
Questions ==
    {[pad |-> 0, core |-> 0], [pad |-> 1, core |-> 0],
     [pad |-> 1, core |-> QuestionMaxLen], [pad |-> 0, core |-> QuestionMaxLen + 1]}

\* len(question.strip())
StrippedLen(q) == q.core

\* if not question
NoQuestion(q) == StrippedLen(q) = 0

\* A length check that also refuses a question of exactly the maximum length.
TooLongFromMax(q) == StrippedLen(q) >= QuestionMaxLen

\* if len(question) > 1000
TooLong(q) == StrippedLen(q) > QuestionMaxLen

\* What the call to the generation backend can do: answer with a status and a
\* 'response' text (core characters that are not whitespace), refuse the
\* connection, or fail in another way (timeout, invalid JSON).
Backends ==
    {[kind |-> "response", status |-> 200, core |-> 1],
     [kind |-> "response", status |-> 200, core |-> 0],
     [kind |-> "response", status |-> 500, core |-> 1],
     [kind |-> "connection_error", status |-> 0, core |-> 0],
     [kind |-> "timeout", status |-> 0, core |-> 0]}

NotCalled == [kind |-> "not_called", status |-> 0, core |-> 0]

RECURSIVE SumLen(_, _)
SumLen(texts, i) == IF i > Len(texts) THEN 0 ELSE TextLen(texts[i]) + SumLen(texts, i + 1)

\* len("\n\n".join(context_texts))
ContextLen(texts) ==
    IF Len(texts) = 0 THEN 0 ELSE SumLen(texts, 1) + SeparatorLen * (Len(texts) - 1)

\* generate_answer_with_ollama without its except clauses.
GenerateAnswerNoCatch(backend, ctxLen) ==
    IF backend.kind = "response"
    THEN IF backend.status = 200 /\ backend.core > 0
         THEN [raised |-> FALSE, answer |-> [kind |-> "generated", len |-> backend.core]]
         ELSE [raised |-> FALSE,
               answer |-> [kind |-> "fallback",
                           len |-> FallbackPrefixLen + Min(ctxLen, FallbackContextLen)
                                   + EllipsisLen]]
    ELSE [raised |-> TRUE, answer |-> [kind |-> "", len |-> 0]]

\* generate_answer_with_ollama: the stripped 'response' of a 200 answer when it
\* is not empty; else the answer templated from context[:300]; after any other
\* exception the answer templated from context[:200].
GenerateAnswerWithOllama(backend, ctxLen) ==
    IF backend.kind = "response"
    THEN IF backend.status = 200 /\ backend.core > 0
         THEN [raised |-> FALSE, answer |-> [kind |-> "generated", len |-> backend.core]]
         ELSE [raised |-> FALSE,
               answer |-> [kind |-> "fallback",
                           len |-> FallbackPrefixLen + Min(ctxLen, FallbackContextLen)
                                   + EllipsisLen]]
    ELSE IF backend.kind = "connection_error"
    THEN [raised |-> FALSE,
          answer |-> [kind |-> "fallback",
                      len |-> FallbackPrefixLen + Min(ctxLen, FallbackContextLen)
                              + EllipsisLen]]
    ELSE [raised |-> FALSE,
          answer |-> [kind |-> "fallback_error",
                      len |-> ErrorPrefixLen + Min(ctxLen, ErrorContextLen) + EllipsisLen]]

\* f"{result['score']:.3f}": the score in thousandths.
FormatScore(score) == score * 10

\* QueryAPIView.post for a question that passed validation, when the search
\* found nothing: the backend is called before the results are looked at.
AnswerEager(q, raw, docs, backend) ==
    LET found == Search(raw, docs, ScoreThreshold)
        results == found.results
        context_texts == [i \in 1..Min(ContextSize, Len(results)) |-> results[i].text]
        gen == GenerateAnswerWithOllama(backend, ContextLen(context_texts))
    IN  [Blank EXCEPT
            !.op = "query", !.question = q, !.raw = raw, !.status = 200,
            !.results = results, !.context = context_texts, !.backend = backend,
            !.answer = gen.answer,
            !.retrieved_docs = [i \in 1..Len(results) |-> results[i].text],
            !.context_found = TRUE,
            !.relevance_scores = [i \in 1..Len(results) |-> FormatScore(results[i].score)],
            !.sources = {results[i].metadata.filename : i \in 1..Len(results)},
            !.path = <<"VALIDATING", "SEARCHING", "CONTEXT_FOUND", "GENERATING",
                       "GENERATED_TERMINAL">>]

\* QueryAPIView.post for a question that passed validation: search, the
\* no-context answer, or context assembly, generation and the response; any
\* exception on the way gives the 500 response.
Answer(q, raw, docs, backend) ==
    LET found == Search(raw, docs, ScoreThreshold)
        results == found.results
        context_texts == [i \in 1..Min(ContextSize, Len(results)) |-> results[i].text]
        gen == GenerateAnswerWithOllama(backend, ContextLen(context_texts))
        base == [Blank EXCEPT !.op = "query", !.question = q, !.raw = raw]
    IN  IF found.raised
        THEN [base EXCEPT !.status = 500, !.error = "Query processing failed",
                          !.searchRaised = TRUE,
                          !.path = <<"VALIDATING", "SEARCHING", "ERROR">>]
        ELSE IF Len(results) = 0
        THEN [base EXCEPT !.status = 200,
                          !.answer = [kind |-> "no_information", len |-> NoInfoLen],
                          !.path = <<"VALIDATING", "SEARCHING", "NO_CONTEXT_TERMINAL">>]
        ELSE IF gen.raised
        THEN [base EXCEPT !.status = 500, !.error = "Query processing failed",
                          !.results = results, !.context = context_texts,
                          !.backend = backend,
                          !.path = <<"VALIDATING", "SEARCHING", "CONTEXT_FOUND",
                                     "GENERATING", "ERROR">>]
        ELSE [base EXCEPT
                !.status = 200,
                !.results = results,
                !.context = context_texts,
                !.backend = backend,
                !.answer = gen.answer,
                !.retrieved_docs = [i \in 1..Len(results) |-> results[i].text],
                !.context_found = TRUE,
                !.relevance_scores =
                    [i \in 1..Len(results) |-> FormatScore(results[i].score)],
                !.sources = {results[i].metadata.filename : i \in 1..Len(results)},
                !.path = <<"VALIDATING", "SEARCHING", "CONTEXT_FOUND", "GENERATING",
                           IF gen.answer.kind = "generated" THEN "GENERATED_TERMINAL"
                           ELSE "FALLBACK_TERMINAL">>]

\* QueryAPIView.post.
QueryPost ==
    /\ req.op = "idle"
    /\ \E q \in Questions :
         IF NoQuestion(q)
         THEN req' = [Blank EXCEPT !.op = "query", !.question = q, !.status = 400,
                                   !.error = "No question provided",
                                   !.path = <<"VALIDATING", "INVALID">>]
         ELSE IF TooLong(q)
         THEN req' = [Blank EXCEPT !.op = "query", !.question = q, !.status = 400,
                                   !.error = "Question too long",
                                   !.path = <<"VALIDATING", "INVALID">>]
         ELSE \E raw \in (IF Len(index) = 0 THEN {<<>>}
                          ELSE IndexSearch(Len(index), TopKSize)) :
                 LET found == Search(raw, documents, ScoreThreshold)
                 IN  IF found.raised \/ Len(found.results) = 0
                     THEN req' = Answer(q, raw, documents, NotCalled)
                     ELSE \E backend \in Backends :
                              req' = Answer(q, raw, documents, backend)
    /\ UNCHANGED <<index, documents, diskIndex, diskDocs, fresh, saveFailures, cin, cout, calls, fileLen>>

\* ------------------------------------------------------------- chunk_text
\* The characters of the texts given to chunk_text: a letter, a sentence end,
\* whitespace.
Chars == {"a", ".", " "}

IsSpace(ch) == ch = " "

\* text.strip()
RECURSIVE LStrip(_)
LStrip(t) == IF Len(t) > 0 /\ IsSpace(Head(t)) THEN LStrip(Tail(t)) ELSE t

RECURSIVE RStrip(_)
RStrip(t) ==
    IF Len(t) > 0 /\ IsSpace(t[Len(t)]) THEN RStrip(SubSeq(t, 1, Len(t) - 1)) ELSE t

Strip(t) == RStrip(LStrip(t))

\* re.sub(r'\s+', ' ', t): every run of whitespace becomes one space.
RECURSIVE Collapse(_, _, _)
Collapse(t, i, out) ==
    IF i > Len(t) THEN out
    ELSE IF IsSpace(t[i]) /\ i > 1 /\ IsSpace(t[i - 1])
         THEN Collapse(t, i + 1, out)
         ELSE Collapse(t, i + 1, Append(out, IF IsSpace(t[i]) THEN " " ELSE t[i]))

\* re.split(r'(?<=[.!?])\s+', t) of a text whose whitespace runs are single
\* spaces: cut at every space that follows a sentence end; the space is dropped.
RECURSIVE SplitSentences(_, _, _, _)
SplitSentences(t, i, cur, out) ==
    IF i > Len(t) THEN Append(out, cur)
    ELSE IF IsSpace(t[i]) /\ i > 1 /\ t[i - 1] = "."
         THEN SplitSentences(t, i + 1, <<>>, Append(out, cur))
         ELSE SplitSentences(t, i + 1, Append(cur, t[i]), out)

\* The inner loop of chunk_text: add sentences i + sentence_count, ... to
\* current_chunk while the chunk stays within max_chunk_size.
RECURSIVE BuildChunk(_, _, _, _, _)
BuildChunk(sentences, max_chunk_size, i, sentence_count, current_chunk) ==
    IF i + sentence_count > Len(sentences)
    THEN [chunk |-> current_chunk, count |-> sentence_count]
    ELSE LET sentence == sentences[i + sentence_count]
             potential_chunk == IF Len(current_chunk) > 0
                                THEN current_chunk \o <<" ">> \o sentence
                                ELSE sentence
         IN  IF Len(potential_chunk) <= max_chunk_size
             THEN BuildChunk(sentences, max_chunk_size, i, sentence_count + 1,
                             potential_chunk)
             ELSE [chunk |-> current_chunk, count |-> sentence_count]

\* The outer loop of chunk_text: build a chunk at sentence i, keep it when it is
\* not empty, and move forward leaving overlap_sentences of overlap.
RECURSIVE ChunkLoop(_, _, _, _, _)
ChunkLoop(sentences, max_chunk_size, overlap_size, i, chunks) ==
    IF i > Len(sentences) THEN chunks
    ELSE LET b == BuildChunk(sentences, max_chunk_size, i, 0, <<>>)
             kept == IF Len(Strip(b.chunk)) > 0 THEN Append(chunks, Strip(b.chunk))
                     ELSE chunks
             overlap_sentences ==
                 Max(1, Min(b.count \div 2, overlap_size \div OverlapDivisor))
             step == IF b.count <= 1 THEN 1 ELSE Max(1, b.count - overlap_sentences)
         IN  ChunkLoop(sentences, max_chunk_size, overlap_size, i + step, kept)

\* chunk_text: ValueError for a blank text or when no chunk was made, else the
\* chunks.  sentences records the sentence units the text was split into.
ChunkTextResult(text, max_chunk_size, overlap_size) ==
    IF Len(text) = 0 \/ Len(Strip(text)) = 0
    THEN [done |-> TRUE, raised |-> TRUE, sentences |-> <<>>, chunks |-> <<>>]
    ELSE LET clean == Collapse(Strip(text), 1, <<>>)
             sentences == SplitSentences(clean, 1, <<>>, <<>>)
             chunks == ChunkLoop(sentences, max_chunk_size, overlap_size, 1, <<>>)
         IN  IF Len(chunks) = 0
             THEN [done |-> TRUE, raised |-> TRUE, sentences |-> sentences,
                   chunks |-> <<>>]
             ELSE [done |-> TRUE, raised |-> FALSE, sentences |-> sentences,
                   chunks |-> chunks]

\* The calls of chunk_text the model makes.
ChunkInputs ==
    [text : UNION {[1..n -> Chars] : n \in 0..MaxTextLen},
     max_chunk_size : 1..MaxChunkSize,
     overlap_size : {OverlapDivisor * u : u \in 0..MaxOverlapUnits}]

NotChunked == [done |-> FALSE, raised |-> FALSE, sentences |-> <<>>, chunks |-> <<>>]

\* One call of chunk_text.
ChunkText ==
    /\ ~cout.done
    /\ cout' = ChunkTextResult(cin.text, cin.max_chunk_size, cin.overlap_size)
    /\ UNCHANGED <<index, documents, diskIndex, diskDocs, fresh, saveFailures, req, cin,
                   calls, fileLen>>

\* The response leaves the handler (return Response(...)), or the process is up:
\* the single worker takes the next request.
Respond ==
    /\ req.op # "idle"
    /\ req' = Blank
    /\ UNCHANGED <<index, documents, diskIndex, diskDocs, fresh, saveFailures, cin, cout, calls, fileLen>>

\* ------------------------------------- add_documents on request threads
\* Two upload requests are served on two threads of one process and both reach
\* vector_store.add_documents on the module-level store.  Nothing in the code
\* locks the store, so the threads interleave between the statements of
\* add_documents and save_index.  The calls to FAISS release the interpreter
\* lock, and a file written through open(...)/fopen is truncated when it is
\* opened while its bytes reach it only when the writer flushes, at close.
Threads == {"A", "B"}

\* The file each thread's request uploaded.
CallFile(t) == IF t = "A" THEN "a.pdf" ELSE "b.docx"

\* No call is running on the thread.
NoCall == [pc |-> "idle", texts |-> <<>>, metadata |-> <<>>, i |-> 0, doc_id |-> 0,
           buf |-> <<>>]

\* views.py: vector_store.add_documents(chunks, metadata) is entered with the n
\* chunks of the thread's file.
StartCall(t, n) ==
    LET file == [name |-> CallFile(t), nchunks |-> n]
    IN  [pc |-> "index_add", texts |-> ChunkTexts(file), metadata |-> ChunkMetadata(file),
         i |-> 1, doc_id |-> 0, buf |-> <<>>]

\* faiss.write_index closes the file it opened: the serialised index lands at
\* offset 0.  Bytes a longer, earlier write left behind it stay in the file;
\* faiss.read_index reads the vector count from the header, reads that many
\* vectors and does not look at what follows them.
FlushIndex(buf, len) == [file |-> GoodFile(buf), len |-> Max(Len(buf), len)]

\* A documents.json that replaces the old file in one step (written aside and
\* renamed) instead of being written over it.
FlushDocsReplace(buf, len) == [file |-> GoodFile(buf), len |-> Len(buf)]

\* The with block of save_index closes documents.json: the JSON text lands at
\* offset 0.  Over a longer, earlier write the rest of that write follows the
\* closing bracket, and json.load rejects the file ("Extra data").
FlushDocs(buf, len) ==
    [file |-> IF Len(buf) >= len THEN GoodFile(buf) ELSE CorruptFile,
     len |-> Max(Len(buf), len)]

\* index.add(embeddings): the vectors of the whole batch, in one FAISS call.
IndexAdd(t) ==
    LET c == calls[t]
    IN  /\ c.pc = "index_add"
        /\ Len(c.texts) > 0 /\ Len(c.texts) = Len(c.metadata)
        /\ index' = index \o [i \in 1..Len(c.texts) |-> Embed(c.texts[i])]
        /\ calls' = [calls EXCEPT ![t].pc = "read_len"]
        /\ UNCHANGED <<documents, diskIndex, diskDocs, fresh, saveFailures, req, cin, cout,
                       fileLen>>

\* doc_id = len(self.documents)
ReadLen(t) ==
    LET c == calls[t]
    IN  /\ c.pc = "read_len"
        /\ calls' = [calls EXCEPT ![t].doc_id = Len(documents), ![t].pc = "append"]
        /\ UNCHANGED <<index, documents, diskIndex, diskDocs, fresh, saveFailures, req,
                       cin, cout, fileLen>>

\* self.documents.append({'id': doc_id, 'text': text, 'metadata': meta}), and the
\* loop goes on to the next text or add_documents calls save_index.
AppendRecord(t) ==
    LET c == calls[t]
    IN  /\ c.pc = "append"
        /\ documents' = Append(documents, [id |-> c.doc_id, text |-> c.texts[c.i],
                                           metadata |-> c.metadata[c.i]])
        /\ calls' = [calls EXCEPT ![t].i = c.i + 1,
                                  ![t].pc = IF c.i = Len(c.texts) THEN "open_index"
                                            ELSE "read_len"]
        /\ UNCHANGED <<index, diskIndex, diskDocs, fresh, saveFailures, req, cin, cout,
                       fileLen>>

\* faiss.write_index opens faiss_index.bin for writing: the file is now empty.
OpenIndexFile(t) ==
    LET c == calls[t]
    IN  /\ c.pc = "open_index"
        /\ diskIndex' = CorruptFile
        /\ fileLen' = [fileLen EXCEPT !.index = 0]
        /\ calls' = [calls EXCEPT ![t].pc = "write_index"]
        /\ UNCHANGED <<index, documents, diskDocs, fresh, saveFailures, req, cin, cout>>

\* faiss.write_index serialises self.index as it is now into the stream.
WriteIndex(t) ==
    LET c == calls[t]
    IN  /\ c.pc = "write_index"
        /\ calls' = [calls EXCEPT ![t].buf = index, ![t].pc = "close_index"]
        /\ UNCHANGED <<index, documents, diskIndex, diskDocs, fresh, saveFailures, req,
                       cin, cout, fileLen>>

\* faiss.write_index closes the stream and returns.
CloseIndexFile(t) ==
    LET c == calls[t]
        r == FlushIndex(c.buf, fileLen.index)
    IN  /\ c.pc = "close_index"
        /\ diskIndex' = r.file
        /\ fileLen' = [fileLen EXCEPT !.index = r.len]
        /\ calls' = [calls EXCEPT ![t].buf = <<>>, ![t].pc = "open_docs"]
        /\ UNCHANGED <<index, documents, diskDocs, fresh, saveFailures, req, cin, cout>>

\* with open(docs_path, 'w') as f: documents.json is now empty.
OpenDocsFile(t) ==
    LET c == calls[t]
    IN  /\ c.pc = "open_docs"
        /\ diskDocs' = CorruptFile
        /\ fileLen' = [fileLen EXCEPT !.docs = 0]
        /\ calls' = [calls EXCEPT ![t].pc = "dump_docs"]
        /\ UNCHANGED <<index, documents, diskIndex, fresh, saveFailures, req, cin, cout>>

\* json.dump(self.documents, f) encodes the list as it is now into f's buffer.
DumpDocs(t) ==
    LET c == calls[t]
    IN  /\ c.pc = "dump_docs"
        /\ calls' = [calls EXCEPT ![t].buf = documents, ![t].pc = "close_docs"]
        /\ UNCHANGED <<index, documents, diskIndex, diskDocs, fresh, saveFailures, req,
                       cin, cout, fileLen>>

\* The with block ends, f is closed; save_index and add_documents return.
CloseDocsFile(t) ==
    LET c == calls[t]
        r == FlushDocs(c.buf, fileLen.docs)
    IN  /\ c.pc = "close_docs"
        /\ diskDocs' = r.file
        /\ fileLen' = [fileLen EXCEPT !.docs = r.len]
        /\ calls' = [calls EXCEPT ![t].buf = <<>>, ![t].pc = "done"]
        /\ UNCHANGED <<index, documents, diskIndex, fresh, saveFailures, req, cin, cout>>

\* ------------------------------------------------------------ specifications
StoreInit ==
    /\ index = <<>>
    /\ documents = <<>>
    /\ diskIndex = AbsentFile
    /\ diskDocs = AbsentFile
    /\ fresh = TRUE
    /\ saveFailures = 0
    /\ req = Blank

ChunkIdle ==
    /\ cin = [text |-> <<>>, max_chunk_size |-> 1, overlap_size |-> 0]
    /\ cout = NotChunked

\* One request is handled at a time: no add_documents call is in progress
\* outside the request being handled.
ConcIdle ==
    /\ calls = [t \in Threads |-> NoCall]
    /\ fileLen = [index |-> 0, docs |-> 0]

Init == StoreInit /\ ChunkIdle /\ ConcIdle
Next == UploadPost \/ Restart \/ QueryPost \/ Respond
Spec == Init /\ [][Next]_vars

InitChunk == StoreInit /\ cin \in ChunkInputs /\ cout = NotChunked /\ ConcIdle
NextChunk == ChunkText
SpecChunk == InitChunk /\ [][NextChunk]_vars

\* Two uploads at once on a new store: each thread enters add_documents with
\* the chunks of its file, and the threads are scheduled in any order.
InitConc ==
    /\ StoreInit
    /\ ChunkIdle
    /\ \E na \in 1..MaxBatch, nb \in 1..MaxBatch :
           /\ na + nb <= MaxDocs
           /\ calls = [t \in Threads |-> StartCall(t, IF t = "A" THEN na ELSE nb)]
    /\ fileLen = [index |-> 0, docs |-> 0]

NextConc ==
    \E t \in Threads :
        \/ IndexAdd(t)
        \/ ReadLen(t)
        \/ AppendRecord(t)
        \/ OpenIndexFile(t)
        \/ WriteIndex(t)
        \/ CloseIndexFile(t)
        \/ OpenDocsFile(t)
        \/ DumpDocs(t)
        \/ CloseDocsFile(t)

SpecConc == InitConc /\ [][NextConc]_vars

\* ------------------------------------------------------------------ claims

\* C1: in a store that was created empty and has only been changed by
\* add_documents calls that ran one at a time, the index holds as many vectors as
\* documents holds records, and every record's id is its position in the list.
IndexStoreParity ==
    fresh => /\ Len(index) = Len(documents)
             /\ \A i \in 1..Len(documents) : documents[i].id = i - 1

\* C1 witness: a fresh store after a second successful add, one of them of two
\* chunks.
IndexStoreParityWitness ==
    /\ fresh
    /\ req.op = "upload" /\ req.status = 200
    /\ Len(documents) = 3
    /\ documents[3].metadata.chunk_index = 0

\* The positions the index returned for the query with a score under the
\* threshold.
BelowThreshold(raw) ==
    {raw[i].idx : i \in {j \in 1..Len(raw) :
                           raw[j].idx # NoHit /\ raw[j].score < ScoreThreshold}}

\* C2: no chunk that scored under the threshold is in retrieved_docs or in the
\* context given to the generation backend, also when it is in the raw top-k.
ThresholdGate ==
    req.op = "query" =>
        /\ \A i \in 1..Len(req.results) :
              /\ req.results[i].score >= ScoreThreshold
              /\ req.results[i].idx \notin BelowThreshold(req.raw)
        /\ Len(req.retrieved_docs) <= Len(req.results)
        /\ \A i \in 1..Len(req.retrieved_docs) : req.retrieved_docs[i] = req.results[i].text
        /\ Len(req.context) <= Len(req.results)
        /\ \A i \in 1..Len(req.context) : req.context[i] = req.results[i].text
        /\ \A i \in 1..Len(req.relevance_scores) :
              req.relevance_scores[i] >= FormatScore(ScoreThreshold)

\* C2 witness: an answered query whose raw top-k held a chunk under the
\* threshold next to chunks that passed.
ThresholdGateWitness ==
    /\ req.op = "query" /\ req.status = 200 /\ req.context_found
    /\ BelowThreshold(req.raw) # {}
    /\ Len(req.retrieved_docs) = 2

\* The generation backend did not deliver an answer: connection refused,
\* timeout or another exception, a status other than 200, an empty response.
BackendFailed(b) ==
    \/ b.kind \in {"connection_error", "timeout"}
    \/ b.kind = "response" /\ (b.status # 200 \/ b.core = 0)

\* C3: when at least one chunk passed the threshold and the backend fails, the
\* response is a success with a non-empty answer and context_found = true.
FallbackGuarantee ==
    (req.op = "query" /\ Len(req.results) > 0 /\ BackendFailed(req.backend)) =>
        /\ req.status = 200
        /\ req.answer.len > 0
        /\ req.context_found
        /\ req.error = ""

\* C3 witness: the backend timed out on a query with context.
FallbackGuaranteeWitness ==
    /\ req.op = "query" /\ Len(req.results) > 0
    /\ req.backend.kind = "timeout"
    /\ req.answer.kind = "fallback_error"

\* A chunk contains a sentence.
Contains(chunk, sentence) ==
    \E k \in 0..(Len(chunk) - Len(sentence)) :
        SubSeq(chunk, k + 1, k + Len(sentence)) = sentence

\* C4: every sentence unit of the normalized text is in at least one chunk
\* chunk_text returns, also a sentence longer than max_chunk_size.
ChunkCoverage ==
    (cout.done /\ ~cout.raised) =>
        \A i \in 1..Len(cout.sentences) :
            \E c \in 1..Len(cout.chunks) : Contains(cout.chunks[c], cout.sentences[i])

\* C5: every chunk is at most max_chunk_size long, except that a sentence that
\* alone is longer than max_chunk_size is returned as a chunk of its own.
ChunkBound ==
    (cout.done /\ ~cout.raised) =>
        /\ \A c \in 1..Len(cout.chunks) :
              \/ Len(cout.chunks[c]) <= cin.max_chunk_size
              \/ \E i \in 1..Len(cout.sentences) : cout.sentences[i] = cout.chunks[c]
        /\ \A i \in 1..Len(cout.sentences) :
              Len(cout.sentences[i]) > cin.max_chunk_size =>
                  \E c \in 1..Len(cout.chunks) : cout.chunks[c] = cout.sentences[i]

RawPos(raw, idx) == CHOOSE p \in 1..Len(raw) : raw[p].idx = idx

PassesValidation(q) == q.core >= 1 /\ q.core <= QuestionMaxLen

\* No hit of the raw result passes the threshold (none at all for an empty
\* index).
NothingPasses(raw) ==
    \A i \in 1..Len(raw) : raw[i].idx = NoHit \/ raw[i].score < ScoreThreshold

\* C7: when nothing passes the threshold the response has context_found =
\* false, no retrieved_docs and the fixed answer, and the backend is not called.
NoContext ==
    (req.op = "query" /\ PassesValidation(req.question) /\ NothingPasses(req.raw)) =>
        /\ req.status = 200
        /\ ~req.context_found
        /\ req.retrieved_docs = <<>>
        /\ req.answer = [kind |-> "no_information", len |-> NoInfoLen]
        /\ req.backend = NotCalled

\* C7 witness: the index holds chunks and the best match scored 0.25.
NoContextWitness ==
    /\ req.op = "query" /\ PassesValidation(req.question)
    /\ Len(index) > 0 /\ Len(req.raw) = TopKSize
    /\ req.raw[1].score = 25
    /\ ~req.context_found

SuccessPaths ==
    {<<"VALIDATING", "SEARCHING", "NO_CONTEXT_TERMINAL">>,
     <<"VALIDATING", "SEARCHING", "CONTEXT_FOUND", "GENERATING", "GENERATED_TERMINAL">>,
     <<"VALIDATING", "SEARCHING", "CONTEXT_FOUND", "GENERATING", "FALLBACK_TERMINAL">>}

\* C8, as claimed: a request whose question passes validation goes through the
\* states of the query path to a terminal state with a 200 response, and only a
\* validation failure gives an error response.
QueryPathAlwaysSucceeds ==
    req.op = "query" =>
        /\ PassesValidation(req.question) => (req.status = 200 /\ req.path \in SuccessPaths)
        /\ req.status # 200 => ~PassesValidation(req.question)

\* C8, amended: a request whose question passes validation ends in a terminal
\* state with a 200 response unless the search raises, which ends it with the
\* 500 response; a question that fails validation gets the 400 response, and
\* nothing else does.
QueryPath ==
    req.op = "query" =>
        /\ PassesValidation(req.question) =>
              \/ req.status = 200 /\ req.path \in SuccessPaths
              \/ /\ req.status = 500 /\ req.searchRaised
                 /\ req.path = <<"VALIDATING", "SEARCHING", "ERROR">>
        /\ ~PassesValidation(req.question) =>
              req.status = 400 /\ req.path = <<"VALIDATING", "INVALID">>
        /\ req.path[Len(req.path)] = "GENERATED_TERMINAL" =>
              req.backend = [kind |-> "response", status |-> 200, core |-> 1]
        /\ req.path[Len(req.path)] = "FALLBACK_TERMINAL" => BackendFailed(req.backend)
        /\ req.path[Len(req.path)] = "NO_CONTEXT_TERMINAL" => req.backend = NotCalled

\* C8 witness: a question of exactly 1000 characters answered from the fallback.
QueryPathWitness ==
    /\ req.op = "query" /\ req.question.core = QuestionMaxLen
    /\ req.status = 200
    /\ req.path[Len(req.path)] = "FALLBACK_TERMINAL"

\* C9: when the extractor raises, the upload is answered with a client error
\* and the temporary copy is gone when the request completes.
ExtractionClientError ==
    (req.op = "upload" /\ req.extractFailed) =>
        /\ req.status >= 400 /\ req.status <= 499
        /\ ~req.tempExists

\* The persist directory holds both files and one of them cannot be read.
SnapshotUnreadable ==
    /\ diskIndex.state # "absent" /\ diskDocs.state # "absent"
    /\ diskIndex.state = "corrupt" \/ diskDocs.state = "corrupt"

\* C10: after a load_index that failed to read the snapshot, the store has an
\* empty index and an empty documents list, never one of the two from disk.
LoadFallback ==
    (req.op = "start" /\ SnapshotUnreadable) =>
        /\ req.loadFailed
        /\ index = <<>>
        /\ documents = <<>>

\* C10 witness: the index file held vectors and read, documents.json did not.
LoadFallbackWitness ==
    /\ req.op = "start"
    /\ diskIndex.state = "ok" /\ Len(diskIndex.data) > 0
    /\ diskDocs.state = "corrupt"

\* Both add_documents calls of the two request threads have returned.
AllDone == \A t \in Threads : calls[t].pc = "done"

IsPrefix(s, full) ==
    /\ Len(s) <= Len(full)
    /\ \A i \in 1..Len(s) : s[i] = full[i]

\* C11: two add_documents calls that race to save_index on the unlocked store
\* interleave their writes to faiss_index.bin and documents.json.  Once both
\* calls have returned, the index file is readable and holds the first vectors
\* of the in-memory index, at least one of them but not always all, while
\* documents.json, when it is readable, holds every record: so the two files
\* can end up with different numbers of entries (the witness is such a state).
RacingSaves ==
    AllDone =>
        /\ Len(index) = Len(documents)
        /\ diskIndex.state = "ok"
        /\ Len(diskIndex.data) >= 1
        /\ IsPrefix(diskIndex.data, index)
        /\ diskDocs.state = "ok" => diskDocs.data = documents

\* C11 witness: both calls have returned, both files are readable, and the index
\* file holds a different number of entries than documents.json.
RacingSavesWitness ==
    /\ AllDone
    /\ diskIndex.state = "ok"
    /\ diskDocs.state = "ok"
    /\ Len(diskIndex.data) # Len(diskDocs.data)

\* C12: after two interleaved add_documents calls have both returned, every
\* record's id is its position in documents, no two records share an id, and
\* the vector at each index position is the embedding of the text of the
\* record at that position.
InterleavedAddPairing ==
    AllDone =>
        /\ \A i \in 1..Len(documents) : documents[i].id = i - 1
        /\ \A i, j \in 1..Len(documents) : documents[i].id = documents[j].id => i = j
        /\ Len(index) = Len(documents)
        /\ \A i \in 1..Len(documents) : index[i] = Embed(documents[i].text)
====
